---- MODULE Spec2Model ----
(***************************************************************************)
(* Encryption drivers of the object server (swift/obj/encryptor.py):       *)
(* get_driver, CryptoDriver, FakeDriver and M2CryptoDriver.                *)
(*                                                                         *)
(* Byte strings are sequences over Byte.  The M2Crypto EVP cipher the      *)
(* driver calls (aes_128_cbc, PKCS#7 padding, key used as raw bytes) is    *)
(* modelled by a keyed block permutation run in CBC mode with the same     *)
(* padding and the same final-block checks, scaled down to BlockSize bytes *)
(* of ByteBits bits.                                                       *)
(***************************************************************************)
EXTENDS Integers, Sequences, FiniteSets, TLC

\* ------------------------------------------------------------- bounds
ByteBits == 2
BlockSize == 2
MaxLen == 3

NumBytes == 2 ^ ByteBits
Byte == 0 .. (NumBytes - 1)

\* ------------------------------------------------- values of the program
Absent == "<absent>"
None == "None"
EmptyStr == << >>

\* the character 'a' of  res = "a" * original_len
CharA == 97
\* len(str(None))
LenStrNone == 4

IVDigits == << 3, 1, 4, 1, 5, 2, 7, 1, 8, 2, 8, 1, 0, 3, 4, 5 >>

\* self.iv = "3141527182810345", cut to the block size of the model
iv == [i \in 1 .. BlockSize |-> IVDigits[i] % NumBytes]

RECURSIVE SeqsOfLen(_, _)
SeqsOfLen(S, n) ==
    IF n = 0 THEN { << >> }
    ELSE { Append(s, b) : s \in SeqsOfLen(S, n - 1), b \in S }

SeqsUpTo(S, n) == UNION { SeqsOfLen(S, k) : k \in 0 .. n }

\* bytes the callers put into chunks: the filler byte (which is also a
\* padding of one byte) and the byte that pads a full block
PlainBytes == { CharA % NumBytes, BlockSize }
Plaintexts == SeqsUpTo(PlainBytes, MaxLen)

\* chunks handed to decrypt that no crypt call produced
ArbChunks == SeqsOfLen({0, 1}, 0) \cup SeqsOfLen({0, 1}, 1)
                \cup SeqsOfLen({0, 1}, BlockSize)

KeyIds == { "k1", "k1b", "k2", "missing" }
KnownKeyIds == { "k1", "k1b", "k2" }

Protocols == { Absent, "aes_128_cbc", "aes-128-cbc", "rot13" }
KeystoreDrivers == { Absent, "keystore" }
DriverClasses == { "FakeDriver", "M2CryptoDriver" }
Confs == [crypto_protocol : Protocols, crypto_keystore_driver : KeystoreDrivers]

\* what the cipher primitive reports for one call, beside the data checks
Faults == { "none", "unknown cipher", "other ValueError" }

\* ------------------------------------------------------ call outcomes
Ret(v) == [kind |-> "return", val |-> v, num |-> 0, err |-> "-"]
RetNone == [kind |-> "none", val |-> EmptyStr, num |-> 0, err |-> "-"]
RetNum(n) == [kind |-> "number", val |-> EmptyStr, num |-> n, err |-> "-"]
Raise(e) == [kind |-> "raise", val |-> EmptyStr, num |-> 0, err |-> e]

\* ------------------------------------------------------- key store
\* key material the store holds: one block-size key per known identifier
KeyMaterial(key_id) ==
    IF key_id = "k2"
    THEN [i \in 1 .. BlockSize |-> (3 * i) % NumBytes]
    ELSE [i \in 1 .. BlockSize |-> i % NumBytes]

\* keystore_driver.get_key(key_id)
KeyStoreGetKey(key_id) ==
    IF key_id \in KnownKeyIds THEN Ret(KeyMaterial(key_id))
    ELSE Raise("KeyNotFoundError")

\* key_manager.get_driver(conf, conf.get('crypto_keystore_driver'))
KeyManagerGetDriver(name) ==
    IF name = "keystore" THEN Ret(EmptyStr) ELSE Raise("TypeResolutionError")

\* --------------------------------------------------- cipher primitive
RECURSIVE BitXor(_, _, _)
BitXor(a, b, n) ==
    IF n = 0 THEN 0
    ELSE (((a % 2) + (b % 2)) % 2) + (2 * BitXor(a \div 2, b \div 2, n - 1))

XorBlock(a, b) == [i \in 1 .. BlockSize |-> BitXor(a[i], b[i], ByteBits)]

RECURSIVE EncPrefix(_, _, _)
EncPrefix(k, x, i) ==
    IF i = 0 THEN << >>
    ELSE LET y == EncPrefix(k, x, i - 1)
         IN  Append(y, (x[i] + k[i] + (IF i = 1 THEN 0 ELSE y[i - 1])) % NumBytes)

\* the block permutation under key k and its inverse
EncBlock(k, x) == EncPrefix(k, x, BlockSize)
DecBlock(k, y) ==
    [i \in 1 .. BlockSize |->
        ((2 * NumBytes) + y[i] - k[i] - (IF i = 1 THEN 0 ELSE y[i - 1])) % NumBytes]

RECURSIVE CBCEncBlocks(_, _, _)
CBCEncBlocks(k, prev, data) ==
    IF data = << >> THEN << >>
    ELSE LET c == EncBlock(k, XorBlock(SubSeq(data, 1, BlockSize), prev))
         IN  c \o CBCEncBlocks(k, c, SubSeq(data, BlockSize + 1, Len(data)))

RECURSIVE CBCDecBlocks(_, _, _)
CBCDecBlocks(k, prev, data) ==
    IF data = << >> THEN << >>
    ELSE LET c == SubSeq(data, 1, BlockSize)
         IN  XorBlock(DecBlock(k, c), prev)
                \o CBCDecBlocks(k, c, SubSeq(data, BlockSize + 1, Len(data)))

PadLen_SkipAligned(len) == (BlockSize - (len % BlockSize)) % BlockSize

\* number of padding bytes final() appends in encryption mode
PadLen(len) == BlockSize - (len % BlockSize)

Pad(data) == data \o [i \in 1 .. PadLen(Len(data)) |-> PadLen(Len(data))]

\* the padding check of final() in decryption mode
PadOk(buf) ==
    LET n == buf[Len(buf)]
    IN  /\ n >= 1
        /\ n <= BlockSize
        /\ \A i \in (Len(buf) - n + 1) .. Len(buf) : buf[i] = n

\* the bytes the primitive takes as its key: BlockSize bytes starting at
\* the key buffer, so a shorter key is followed by the memory behind it
KeyBytesRead(key, mem) ==
    IF Len(key) >= BlockSize THEN SubSeq(key, 1, BlockSize)
    ELSE key \o SubSeq(mem, Len(key) + 1, BlockSize)

\* memory contents behind a short key buffer
Memories == { [i \in 1 .. BlockSize |-> 0], iv, KeyMaterial("k2") }
MemoriesFor(key) == IF Len(key) >= BlockSize THEN { iv } ELSE Memories

\* Cipher(alg, key, iv, op); update(chunk) + final()
CipherRun(alg, key, ivec, op, chunk, fault, mem) ==
    IF fault = "unknown cipher" THEN Raise("ValueError: unknown cipher")
    ELSE IF fault = "other ValueError" THEN Raise("ValueError: other")
    ELSE LET k == KeyBytesRead(key, mem)
         IN  IF op = 1 THEN Ret(CBCEncBlocks(k, ivec, Pad(chunk)))
             ELSE IF Len(chunk) = 0 \/ Len(chunk) % BlockSize # 0
                  THEN Raise("EVPError")
             ELSE LET buf == CBCDecBlocks(k, ivec, chunk)
                  IN  IF PadOk(buf)
                      THEN Ret(SubSeq(buf, 1, Len(buf) - buf[Len(buf)]))
                      ELSE Raise("EVPError")

\* try: ... return v   except ValueError, error: if error[0] == ...: raise
HandleValueError(r) ==
    IF r.kind = "raise" /\ r.err = "ValueError: unknown cipher"
    THEN Raise("ValueError: please select avaliable protocol")
    ELSE IF r.kind = "raise" /\ r.err = "ValueError: other"
    THEN RetNone
    ELSE r

\* ------------------------------------------------------------ drivers
ConfGet(c, k, default) == IF c[k] = Absent THEN default ELSE c[k]

\* CryptoDriver.__init__
CryptoDriver_init(c) ==
    LET ks == KeyManagerGetDriver(ConfGet(c, "crypto_keystore_driver", None))
    IN  IF ks.kind = "raise"
        THEN [ok |-> FALSE, protocol |-> None, err |-> ks.err]
        ELSE [ok |-> TRUE, protocol |-> ConfGet(c, "crypto_protocol", None),
              err |-> "-"]

\* FakeDriver.__init__
FakeDriver_init(c) == CryptoDriver_init(c)

SupportedProtocol_Hyphen == "aes-128-cbc"

\* the one protocol M2CryptoDriver.__init__ accepts
SupportedProtocol == "aes_128_cbc"

\* M2CryptoDriver.__init__
M2CryptoDriver_init(c) ==
    LET base == CryptoDriver_init(c)
        p == ConfGet(c, "crypto_protocol", "aes_128_cbc")
    IN  IF ~base.ok THEN base
        ELSE IF p # SupportedProtocol
        THEN [ok |-> FALSE, protocol |-> None, err |-> "NotImplementedError"]
        ELSE [ok |-> TRUE, protocol |-> p, err |-> "-"]

\* get_driver(conf, driver)
get_driver(c, d) ==
    IF d = "M2CryptoDriver" THEN M2CryptoDriver_init(c) ELSE FakeDriver_init(c)

FakeDriver_crypt_Drop(chunk_string) == Ret(SubSeq(chunk_string, 2, Len(chunk_string)))

\* FakeDriver.crypt
FakeDriver_crypt(chunk_string) == Ret(chunk_string)

\* FakeDriver.decrypt
FakeDriver_decrypt(chunk_string) == Ret(chunk_string)

\* M2CryptoDriver.crypt
M2CryptoDriver_crypt(proto, key, chunk, fault, mem) ==
    HandleValueError(CipherRun(proto, key, iv, 1, chunk, fault, mem))

M2CryptoDriver_decrypt_FixedKey(proto, key, chunk, fault, mem) ==
    HandleValueError(CipherRun(proto, KeyMaterial("k1"), iv, 0, chunk, fault, mem))

\* M2CryptoDriver.decrypt
M2CryptoDriver_decrypt(proto, key, chunk, fault, mem) ==
    HandleValueError(CipherRun(proto, key, iv, 0, chunk, fault, mem))

\* self.crypt(...) as dispatched on the instance's class
crypt(c, proto, key, chunk, fault, mem) ==
    IF c = "M2CryptoDriver" THEN M2CryptoDriver_crypt(proto, key, chunk, fault, mem)
    ELSE FakeDriver_crypt(chunk)

\* self.decrypt(...) as dispatched on the instance's class
decrypt(c, proto, key, chunk, fault, mem) ==
    IF c = "M2CryptoDriver" THEN M2CryptoDriver_decrypt(proto, key, chunk, fault, mem)
    ELSE FakeDriver_decrypt(chunk)

crypted_len_Identity(c, proto, key, original_len, fault, mem) == RetNum(original_len)

\* CryptoDriver.crypted_len
crypted_len(c, proto, key, original_len, fault, mem) ==
    LET res == [i \in 1 .. original_len |-> CharA % NumBytes]
        v == crypt(c, proto, key, res, fault, mem)
    IN  IF v.kind = "raise" THEN v
        ELSE IF v.kind = "none" THEN RetNum(LenStrNone)
        ELSE RetNum(Len(v.val))

get_key_value_FirstWins(key, key_id) ==
    LET r == KeyStoreGetKey(key_id)
    IN  IF r.kind = "raise" THEN [key |-> key, res |-> r]
        ELSE [key |-> IF key = EmptyStr THEN r.val ELSE key, res |-> RetNone]

get_key_value_ClearOnFail(key, key_id) ==
    LET r == KeyStoreGetKey(key_id)
    IN  IF r.kind = "raise" THEN [key |-> EmptyStr, res |-> r]
        ELSE [key |-> r.val, res |-> RetNone]

\* CryptoDriver.get_key_value: the new key_value and the outcome of the call
get_key_value(key, key_id) ==
    LET r == KeyStoreGetKey(key_id)
    IN  IF r.kind = "raise" THEN [key |-> key, res |-> r]
        ELSE [key |-> r.val, res |-> RetNone]

\* -------------------------------------------------------------- state
VARIABLES
    phase,      \* "new": no instance yet; "ready": constructed; "failed"
    cls,        \* class of the instance
    conf,       \* self.conf
    protocol,   \* self.protocol
    key_value,  \* self.key_value
    ctorErr,    \* the error the constructor raised, "-" when none
    call,       \* the most recent call on the instance and its outcome
    bound,      \* what the key store returned to the last successful bind
    ct,         \* the last chunk crypt returned under a bound key
    gkvSince,   \* a get_key_value call was made since ct was produced
    pc,         \* workers: position of each worker in its request
    wchunk,     \* workers: the chunk of the worker's request
    wbound,     \* workers: the key material the worker bound itself
    lastBinder, \* workers: the worker whose get_key_value ran last
    wres        \* workers: outcome of the worker's crypt

driverVars == << phase, cls, conf, protocol, key_value, ctorErr >>
callVars == << call, bound, ct, gkvSince >>
workerVars == << pc, wchunk, wbound, lastBinder, wres >>
vars == << phase, cls, conf, protocol, key_value, ctorErr, call, bound, ct,
           gkvSince, pc, wchunk, wbound, lastBinder, wres >>

Workers == { "w1", "w2" }
WorkerKeyId(w) == IF w = "w1" THEN "k1" ELSE "k2"

NoConf == [crypto_protocol |-> Absent, crypto_keystore_driver |-> Absent]
NoCall == [op |-> "none", id |-> "-", chunk |-> EmptyStr, n |-> 0,
           fault |-> "none", key |-> EmptyStr, res |-> RetNone]
NoCt == [valid |-> FALSE, plain |-> EmptyStr, cipher |-> EmptyStr, key |-> EmptyStr]
NoRes == [binder |-> "-", res |-> RetNone]

WorkersIdle ==
    /\ pc = [w \in Workers |-> "idle"]
    /\ wchunk = [w \in Workers |-> EmptyStr]
    /\ wbound = [w \in Workers |-> EmptyStr]
    /\ lastBinder = "-"
    /\ wres = [w \in Workers |-> NoRes]

\* before get_driver is called; key_value = "" is the class attribute
Init ==
    /\ phase = "new"
    /\ cls = "-"
    /\ conf = NoConf
    /\ protocol = None
    /\ key_value = EmptyStr
    /\ ctorErr = "-"
    /\ call = NoCall
    /\ bound = EmptyStr
    /\ ct = NoCt
    /\ gkvSince = FALSE
    /\ WorkersIdle

\* get_driver(conf, driver): driver_class(conf)
GetDriver(c, d) ==
    /\ phase = "new"
    /\ LET r == get_driver(c, d)
       IN  /\ phase' = IF r.ok THEN "ready" ELSE "failed"
           /\ protocol' = r.protocol
           /\ ctorErr' = r.err
    /\ cls' = d
    /\ conf' = c
    /\ UNCHANGED << key_value, callVars, workerVars >>

\* instance.get_key_value(key_id)
GetKeyValue(key_id) ==
    /\ phase = "ready"
    /\ LET r == get_key_value(key_value, key_id)
           ks == KeyStoreGetKey(key_id)
       IN  /\ key_value' = r.key
           /\ call' = [NoCall EXCEPT !.op = "get_key_value", !.id = key_id,
                                     !.key = key_value, !.res = r.res]
           /\ bound' = IF ks.kind = "return" THEN ks.val ELSE bound
    /\ gkvSince' = TRUE
    /\ UNCHANGED << phase, cls, conf, protocol, ctorErr, ct, workerVars >>

\* instance.crypt(chunk)
Crypt(chunk, fault) ==
    /\ phase = "ready"
    /\ \E mem \in MemoriesFor(key_value) :
        LET r == crypt(cls, protocol, key_value, chunk, fault, mem)
            keep == cls = "M2CryptoDriver" /\ key_value # EmptyStr /\ r.kind = "return"
        IN  /\ call' = [NoCall EXCEPT !.op = "crypt", !.chunk = chunk,
                                      !.fault = fault, !.key = key_value, !.res = r]
            /\ ct' = IF keep
                     THEN [valid |-> TRUE, plain |-> chunk, cipher |-> r.val,
                           key |-> key_value]
                     ELSE ct
            /\ gkvSince' = IF keep THEN FALSE ELSE gkvSince
    /\ UNCHANGED << driverVars, bound, workerVars >>

\* instance.decrypt(chunk)
Decrypt(chunk, fault) ==
    /\ phase = "ready"
    /\ \E mem \in MemoriesFor(key_value) :
        call' = [NoCall EXCEPT !.op = "decrypt", !.chunk = chunk, !.fault = fault,
                               !.key = key_value,
                               !.res = decrypt(cls, protocol, key_value, chunk,
                                               fault, mem)]
    /\ UNCHANGED << driverVars, bound, ct, gkvSince, workerVars >>

\* instance.crypted_len(original_len)
CryptedLen(original_len, fault) ==
    /\ phase = "ready"
    /\ \E mem \in MemoriesFor(key_value) :
        call' = [NoCall EXCEPT !.op = "crypted_len", !.n = original_len,
                               !.fault = fault, !.key = key_value,
                               !.res = crypted_len(cls, protocol, key_value,
                                                   original_len, fault, mem)]
    /\ UNCHANGED << driverVars, bound, ct, gkvSince, workerVars >>

\* inputs of the calls: every chunk with a working primitive, and one
\* representative chunk with each report of the primitive
FaultChunk == [i \in 1 .. MaxLen |-> CharA % NumBytes]
FaultBlock == [i \in 1 .. BlockSize |-> 1]
CryptInputs ==
    { << chunk, "none" >> : chunk \in Plaintexts }
        \cup { << FaultChunk, fault >> : fault \in Faults }
DecryptInputs ==
    { << chunk, "none" >> :
        chunk \in ArbChunks \cup (IF ct.valid THEN { ct.cipher } ELSE { }) }
        \cup { << FaultBlock, fault >> : fault \in Faults }
CryptedLenInputs ==
    { << n, "none" >> : n \in 0 .. MaxLen }
        \cup { << MaxLen, fault >> : fault \in Faults }
ConstructorInputs ==
    { << c, "M2CryptoDriver" >> : c \in Confs }
        \cup { << c, "FakeDriver" >> :
                c \in [crypto_protocol : { Absent },
                       crypto_keystore_driver : KeystoreDrivers] }

Next ==
    \/ \E in \in ConstructorInputs : GetDriver(in[1], in[2])
    \/ \E key_id \in KeyIds : GetKeyValue(key_id)
    \/ \E in \in CryptInputs : Crypt(in[1], in[2])
    \/ \E in \in DecryptInputs : Decrypt(in[1], in[2])
    \/ \E in \in CryptedLenInputs : CryptedLen(in[1], in[2])

Spec == Init /\ [][Next]_vars

\* ------------------------------------- workers sharing one instance
\* the key a worker's crypt reads: the attribute of the shared instance
SelfKeyValue_PerWorker(w) == wbound[w]

SelfKeyValue(w) == key_value

\* one M2CryptoDriver, constructed with the default configuration
InitW ==
    /\ phase = "ready"
    /\ cls = "M2CryptoDriver"
    /\ conf = [crypto_protocol |-> Absent, crypto_keystore_driver |-> "keystore"]
    /\ protocol = "aes_128_cbc"
    /\ key_value = EmptyStr
    /\ ctorErr = "-"
    /\ call = NoCall
    /\ bound = EmptyStr
    /\ ct = NoCt
    /\ gkvSince = FALSE
    /\ WorkersIdle

\* a worker takes a request for one chunk
WStart(w, chunk) ==
    /\ pc[w] \in { "idle", "done" }
    /\ pc' = [pc EXCEPT ![w] = "bind"]
    /\ wchunk' = [wchunk EXCEPT ![w] = chunk]
    /\ wres' = [wres EXCEPT ![w] = NoRes]
    /\ UNCHANGED << driverVars, callVars, wbound, lastBinder >>

\* the worker calls get_key_value(its key id)
WGetKeyValue(w) ==
    /\ pc[w] = "bind"
    /\ LET r == get_key_value(key_value, WorkerKeyId(w))
       IN  /\ key_value' = r.key
           /\ wbound' = [wbound EXCEPT ![w] = KeyStoreGetKey(WorkerKeyId(w)).val]
    /\ lastBinder' = w
    /\ pc' = [pc EXCEPT ![w] = "crypt"]
    /\ UNCHANGED << phase, cls, conf, protocol, ctorErr, callVars, wchunk, wres >>

\* the worker calls crypt(its chunk)
WCrypt(w) ==
    /\ pc[w] = "crypt"
    /\ wres' = [wres EXCEPT ![w] =
                  [binder |-> lastBinder,
                   res |-> M2CryptoDriver_crypt(protocol, SelfKeyValue(w), wchunk[w],
                                                "none", iv)]]
    /\ pc' = [pc EXCEPT ![w] = "done"]
    /\ UNCHANGED << driverVars, callVars, wchunk, wbound, lastBinder >>

NextW ==
    \/ \E w \in Workers, chunk \in Plaintexts : WStart(w, chunk)
    \/ \E w \in Workers : WGetKeyValue(w)
    \/ \E w \in Workers : WCrypt(w)

SpecW == InitW /\ [][NextW]_vars

\* ------------------------------------------------------------- claims
Bound(key) == key # EmptyStr
CalledM2(ops) == phase = "ready" /\ cls = "M2CryptoDriver" /\ call.op \in ops

\* decrypt is called, with a working primitive, on the chunk the last crypt
\* under a bound key returned
DecryptOfCt ==
    /\ CalledM2({ "decrypt" })
    /\ call.fault = "none"
    /\ ct.valid
    /\ call.chunk = ct.cipher

\* C1: on M2CryptoDriver with a bound key, decrypt of what crypt returned for
\* p gives back exactly p when no get_key_value call came in between, for
\* empty, single-byte, block-aligned and non-aligned p.
C1_RoundTrip == (DecryptOfCt /\ ~gkvSince) => call.res = Ret(ct.plain)

C1_Witness ==
    /\ DecryptOfCt /\ ~gkvSince
    /\ Len(ct.plain) = MaxLen
    /\ Len(ct.cipher) > MaxLen
    /\ call.res = Ret(ct.plain)

\* C2: on a fresh M2CryptoDriver on which get_key_value was never called,
\* every crypt or decrypt fails with KeyNotBoundError and returns no output.
C2_UnboundFails ==
    (CalledM2({ "crypt", "decrypt" }) /\ ~Bound(call.key))
        => call.res = Raise("KeyNotBoundError")

M2Constructed ==
    /\ cls = "M2CryptoDriver"
    /\ phase # "new"
    /\ conf.crypto_keystore_driver = "keystore"

\* C3 as stated: constructing M2CryptoDriver (its key store being resolved)
\* succeeds iff crypto_protocol is absent or "aes-128-cbc", and fails with
\* the unsupported-protocol error (NotImplementedError) otherwise.
C3_Original ==
    M2Constructed =>
        /\ phase = "ready" <=> conf.crypto_protocol \in { Absent, "aes-128-cbc" }
        /\ phase = "failed" => ctorErr = "NotImplementedError"

\* C3 amended: constructing M2CryptoDriver (its key store being resolved)
\* succeeds iff crypto_protocol is absent or "aes_128_cbc"; every other
\* value, "aes-128-cbc" and "rot13" included, fails with
\* NotImplementedError at construction.
C3_Amended ==
    M2Constructed =>
        /\ phase = "ready" <=> conf.crypto_protocol \in { Absent, "aes_128_cbc" }
        /\ phase = "ready" => protocol = "aes_128_cbc"
        /\ phase = "failed" => ctorErr = "NotImplementedError"

C3_Witness ==
    /\ M2Constructed
    /\ conf.crypto_protocol = "aes-128-cbc"
    /\ phase = "failed"
    /\ ctorErr = "NotImplementedError"

\* C4: every crypt or decrypt on M2CryptoDriver either returns the complete
\* byte string or raises; after the primitive reported an error the call
\* never returns normally.
C4_NoSwallow ==
    CalledM2({ "crypt", "decrypt" }) =>
        /\ call.res.kind \in { "return", "raise" }
        /\ call.fault # "none" => call.res.kind = "raise"

\* C5: with a bound key (any key for FakeDriver), crypted_len(n) equals
\* len(crypt(p)) for every p of length n, whatever the content of p.
C5_LengthDeterminism ==
    ( /\ phase = "ready"
      /\ call.op = "crypted_len"
      /\ call.fault = "none"
      /\ cls = "M2CryptoDriver" => Bound(call.key) )
    => /\ call.res.kind = "number"
       /\ \A p \in Plaintexts :
            Len(p) = call.n =>
                LET r == crypt(cls, protocol, call.key, p, "none", iv)
                IN  r.kind = "return" /\ Len(r.val) = call.res.num

C5_Witness ==
    /\ CalledM2({ "crypted_len" })
    /\ call.fault = "none"
    /\ Bound(call.key)
    /\ call.n = MaxLen
    /\ call.res = RetNum(((MaxLen \div BlockSize) + 1) * BlockSize)

\* C6: FakeDriver, before or after any get_key_value: crypt(p) = p,
\* decrypt(p) = p and crypted_len(n) = n.
C6_Passthrough ==
    (phase = "ready" /\ cls = "FakeDriver") =>
        /\ call.op \in { "crypt", "decrypt" } => call.res = Ret(call.chunk)
        /\ call.op = "crypted_len" => call.res = RetNum(call.n)
        /\ \A p \in Plaintexts :
            /\ crypt(cls, protocol, key_value, p, "none", iv) = Ret(p)
            /\ decrypt(cls, protocol, key_value, p, "none", iv) = Ret(p)
            /\ crypted_len(cls, protocol, key_value, Len(p), "none", iv)
                    = RetNum(Len(p))

C6_Witness ==
    /\ phase = "ready" /\ cls = "FakeDriver"
    /\ Bound(key_value)
    /\ call.op = "crypt"
    /\ Len(call.chunk) = MaxLen
    /\ call.res = Ret(call.chunk)

\* C7: the active key is always the material the key store returned to the
\* most recent successful get_key_value; a keyed instance never becomes
\* unkeyed; crypt, decrypt and crypted_len leave the key alone.
C7_ActiveKey ==
    /\ [](key_value = bound)
    /\ [][ /\ Bound(key_value) => Bound(key_value')
           /\ call'.op \in { "crypt", "decrypt", "crypted_len" }
                => key_value' = key_value ]_vars

C7_Witness ==
    /\ call.op = "get_key_value"
    /\ ct.valid
    /\ call.key = ct.key
    /\ key_value # call.key
    /\ key_value = KeyMaterial(call.id)

\* C8: when the key store's get_key fails for the identifier, get_key_value
\* raises that KeyNotFoundError and the active key stays what it was.
C8_LookupFailure ==
    (phase = "ready" /\ call.op = "get_key_value" /\ call.id \notin KnownKeyIds)
        => call.res = Raise("KeyNotFoundError") /\ key_value = call.key

C8_Witness ==
    /\ call.op = "get_key_value"
    /\ call.id = "missing"
    /\ Bound(call.key)
    /\ key_value = call.key
    /\ call.res.kind = "raise"

\* C9 as stated: after get_key_value(k1), c = crypt(p), get_key_value(k2)
\* with different material, decrypt(c) returns normally a string other
\* than p.
C9_Original ==
    (DecryptOfCt /\ call.key # ct.key) =>
        call.res.kind = "return" /\ call.res.val # ct.plain

\* C9 amended: in that sequence decrypt(c) either raises the cipher's
\* EVPError (the last block fails the padding check under the other key)
\* or returns a byte string, and that string is p only if k2 encrypts p to
\* c as well.
C9_Amended ==
    (DecryptOfCt /\ call.key # ct.key) =>
        \/ call.res = Raise("EVPError")
        \/ /\ call.res.kind = "return"
           /\ call.res.val = ct.plain
                => CBCEncBlocks(call.key, iv, Pad(ct.plain)) = ct.cipher

C9_Witness ==
    /\ DecryptOfCt
    /\ call.key # ct.key
    /\ gkvSince
    /\ call.res = Raise("EVPError")

\* the other outcome of that decrypt: a normal return of bytes other than p
\* (stated negated: its violation shows the outcome is reachable)
C9_ReturnsOther ==
    ~ ( /\ DecryptOfCt
        /\ call.key # ct.key
        /\ call.res.kind = "return"
        /\ call.res.val # ct.plain )

CryptUnder(w, chunk) == Ret(CBCEncBlocks(KeyMaterial(WorkerKeyId(w)), iv, Pad(chunk)))

\* C10: with two workers on one instance, a finished crypt is the
\* encryption of the worker's chunk under the key of whichever worker called
\* get_key_value last before it, and an interleaving is reachable where that
\* is the other worker's key, not the worker's own.
C10_LastBinderKey ==
    \A w \in Workers :
        pc[w] = "done" => wres[w].res = CryptUnder(wres[w].binder, wchunk[w])

C10_Witness ==
    \E w \in Workers :
        /\ pc[w] = "done"
        /\ wres[w].binder \in Workers \ { w }
        /\ wres[w].res = CryptUnder(wres[w].binder, wchunk[w])
        /\ wres[w].res # CryptUnder(w, wchunk[w])

\* the would-be invariant of the claim: every chunk is encrypted under the
\* key its own worker bound
C10_OwnKey ==
    \A w \in Workers : pc[w] = "done" => wres[w].res = CryptUnder(w, wchunk[w])

====
